---- MODULE Spec2Model ----
(***************************************************************************)
(* Model of the validation filter plugin (filter_plugins/validation.py)    *)
(* and of the vault password generator (scripts/generate_passwords.py).    *)
(*                                                                         *)
(* A Python str is a sequence of one-character strings.  A Python value is *)
(* a record tagged by its type in field t.  The outcome of a call is       *)
(* either Return(value) or Raise(exception name).                          *)
(***************************************************************************)
EXTENDS Integers, Sequences, FiniteSets, TLC

VARIABLES
    filter,        \* name of the filter that was applied, or "none"
    arg,           \* the value handed to the filter
    ret,           \* outcome of the filter call
    gp_pc,         \* generate_password: "loop", "returned"
    length,        \* generate_password: parameter length
    complexity,    \* generate_password: parameter complexity
    password,      \* generate_password: characters joined so far / the result
    pc,            \* main: the statement that runs next
    passwords,     \* main: dict passwords (key -> secret), in insertion order
    adminer_hash,  \* main: adminer_hash, or NoValue
    vault_content, \* main: the rendered vault document, or NoValue
    console,       \* main: what has been printed, in order
    save,          \* main: the lowered answer to the prompt, or NoValue
    answer,        \* main: what the operator typed at the prompt, or NoValue
    file,          \* vault_template.yml: NoFile, or its content
    opens,         \* main: number of times vault_template.yml was opened for writing
    failed         \* main: the step whose failure aborted the run, or "none"

vars == <<filter, arg, ret, gp_pc, length, complexity, password, pc, passwords,
          adminer_hash, vault_content, console, save, answer, file, opens, failed>>

filter_vars == <<filter, arg, ret>>
gp_vars == <<gp_pc, length, complexity, password>>
main_vars == <<pc, passwords, adminer_hash, vault_content, console, save, answer,
               file, opens, failed>>

-----------------------------------------------------------------------------
(* Characters and Python values *)

ascii_lowercase == {"a","b","c","d","e","f","g","h","i","j","k","l","m",
                    "n","o","p","q","r","s","t","u","v","w","x","y","z"}
ascii_uppercase == {"A","B","C","D","E","F","G","H","I","J","K","L","M",
                    "N","O","P","Q","R","S","T","U","V","W","X","Y","Z"}
ascii_letters == ascii_lowercase \cup ascii_uppercase
digits == {"0","1","2","3","4","5","6","7","8","9"}
\* what \s and str.strip() treat as whitespace, within ASCII
whitespace == {" ", "\t", "\n", "\r", "\f"}

PyStr(s) == [t |-> "str", s |-> s]
PyInt(n) == [t |-> "int", n |-> n]
PyBool(b) == [t |-> "bool", b |-> b]
PyNone == [t |-> "NoneType"]
\* a float: k is "fin", "inf" or "nan"; a finite one is (+/-)(ip + frac/10), frac a digit
PyFloat(k, neg, ip, frac) == [t |-> "float", k |-> k, neg |-> neg, ip |-> ip, frac |-> frac]
PyList(xs) == [t |-> "list", xs |-> xs]
\* a dict as the sequence of its <<key, value>> items
PyDict(items) == [t |-> "dict", items |-> items]

Return(v) == [kind |-> "return", val |-> v]
Raise(e) == [kind |-> "raise", exc |-> e]
NoOutcome == [kind |-> "none"]

isinstance_str(v) == v.t = "str"

RECURSIVE Concat(_)
Concat(ss) == IF ss = <<>> THEN <<>> ELSE Head(ss) \o Concat(Tail(ss))

-----------------------------------------------------------------------------
(* str.strip(), str.replace(c, ''), str.lower() *)

RECURSIVE lstrip(_)
lstrip(s) == IF s # <<>> /\ Head(s) \in whitespace THEN lstrip(Tail(s)) ELSE s

RECURSIVE rstrip(_)
rstrip(s) ==
    IF s # <<>> /\ s[Len(s)] \in whitespace THEN rstrip(SubSeq(s, 1, Len(s) - 1)) ELSE s

strip(s) == rstrip(lstrip(s))

\* s.replace(char, '') for a one-character char
replace_with_empty(s, char) == SelectSeq(s, LAMBDA c : c # char)

LowerOf(c) ==
    CASE c = "A" -> "a" [] c = "B" -> "b" [] c = "C" -> "c" [] c = "D" -> "d"
      [] c = "E" -> "e" [] c = "F" -> "f" [] c = "G" -> "g" [] c = "H" -> "h"
      [] c = "I" -> "i" [] c = "J" -> "j" [] c = "K" -> "k" [] c = "L" -> "l"
      [] c = "M" -> "m" [] c = "N" -> "n" [] c = "O" -> "o" [] c = "P" -> "p"
      [] c = "Q" -> "q" [] c = "R" -> "r" [] c = "S" -> "s" [] c = "T" -> "t"
      [] c = "U" -> "u" [] c = "V" -> "v" [] c = "W" -> "w" [] c = "X" -> "x"
      [] c = "Y" -> "y" [] c = "Z" -> "z" [] OTHER -> c

lower(s) == [i \in 1..Len(s) |-> LowerOf(s[i])]

-----------------------------------------------------------------------------
(* int(x), str(x), repr(x) *)

DigitValue(c) ==
    CASE c = "0" -> 0 [] c = "1" -> 1 [] c = "2" -> 2 [] c = "3" -> 3 [] c = "4" -> 4
      [] c = "5" -> 5 [] c = "6" -> 6 [] c = "7" -> 7 [] c = "8" -> 8 [] c = "9" -> 9

DigitChar(d) == <<"0","1","2","3","4","5","6","7","8","9">>[d + 1]

RECURSIVE DecimalValue(_)
DecimalValue(ds) ==
    IF ds = <<>> THEN 0
    ELSE 10 * DecimalValue(SubSeq(ds, 1, Len(ds) - 1)) + DigitValue(ds[Len(ds)])

RECURSIVE NatToStr(_)
NatToStr(n) == IF n < 10 THEN <<DigitChar(n)>> ELSE NatToStr(n \div 10) \o <<DigitChar(n % 10)>>

IntToStr(n) == IF n < 0 THEN <<"-">> \o NatToStr(-n) ELSE NatToStr(n)

IntOk(n) == [raised |-> FALSE, n |-> n, exc |-> "none"]
IntRaise(e) == [raised |-> TRUE, n |-> 0, exc |-> e]

\* int(s) for a str s: surrounding whitespace, an optional sign, then decimal
\* digits in which single underscores may separate digits
int_of_str(s) ==
    LET t == strip(s)
        signed == t # <<>> /\ t[1] \in {"+", "-"}
        u == IF signed THEN Tail(t) ELSE t
        wellformed ==
            /\ u # <<>>
            /\ \A i \in 1..Len(u) : u[i] \in digits \cup {"_"}
            /\ u[1] \in digits
            /\ u[Len(u)] \in digits
            /\ \A i \in 1..(Len(u) - 1) : ~(u[i] = "_" /\ u[i + 1] = "_")
        magnitude == DecimalValue(SelectSeq(u, LAMBDA c : c \in digits))
    IN  IF ~wellformed THEN IntRaise("ValueError")
        ELSE IF signed /\ t[1] = "-" THEN IntOk(-magnitude)
        ELSE IntOk(magnitude)

\* int(x): truncation for a finite float, OverflowError for an infinity,
\* ValueError for a NaN or a malformed str, TypeError for None, list, dict
py_int(x) ==
    CASE x.t = "int" -> IntOk(x.n)
      [] x.t = "bool" -> IntOk(IF x.b THEN 1 ELSE 0)
      [] x.t = "float" ->
            IF x.k = "inf" THEN IntRaise("OverflowError")
            ELSE IF x.k = "nan" THEN IntRaise("ValueError")
            ELSE IntOk(IF x.neg THEN -x.ip ELSE x.ip)
      [] x.t = "str" -> int_of_str(x.s)
      [] OTHER -> IntRaise("TypeError")

EscapeChar(c, quote) ==
    CASE c = "\\" -> <<"\\", "\\">>
      [] c = "\n" -> <<"\\", "n">>
      [] c = "\t" -> <<"\\", "t">>
      [] c = "\r" -> <<"\\", "r">>
      [] c = "\f" -> <<"\\", "x", "0", "c">>
      [] c = quote -> <<"\\", c>>
      [] OTHER -> <<c>>

\* repr(s) for a str s
repr_str(s) ==
    LET has(q) == \E i \in 1..Len(s) : s[i] = q
        quote == IF has("'") /\ ~has("\"") THEN "\"" ELSE "'"
    IN  <<quote>> \o Concat([i \in 1..Len(s) |-> EscapeChar(s[i], quote)]) \o <<quote>>

float_str(x) ==
    CASE x.k = "inf" -> (IF x.neg THEN <<"-">> ELSE <<>>) \o <<"i", "n", "f">>
      [] x.k = "nan" -> <<"n", "a", "n">>
      [] OTHER -> (IF x.neg THEN <<"-">> ELSE <<>>) \o NatToStr(x.ip)
                    \o <<".", DigitChar(x.frac)>>

RECURSIVE py_repr(_)
RECURSIVE JoinRepr(_)
RECURSIVE JoinItems(_)

\* ', '.join(repr(e) for e in xs)
JoinRepr(xs) ==
    IF xs = <<>> THEN <<>>
    ELSE IF Len(xs) = 1 THEN py_repr(xs[1])
    ELSE py_repr(xs[1]) \o <<",", " ">> \o JoinRepr(Tail(xs))

JoinItems(items) ==
    IF items = <<>> THEN <<>>
    ELSE LET one == py_repr(items[1][1]) \o <<":", " ">> \o py_repr(items[1][2])
         IN  IF Len(items) = 1 THEN one ELSE one \o <<",", " ">> \o JoinItems(Tail(items))

py_repr(x) ==
    CASE x.t = "str" -> repr_str(x.s)
      [] x.t = "int" -> IntToStr(x.n)
      [] x.t = "bool" -> IF x.b THEN <<"T","r","u","e">> ELSE <<"F","a","l","s","e">>
      [] x.t = "NoneType" -> <<"N","o","n","e">>
      [] x.t = "float" -> float_str(x)
      [] x.t = "list" -> <<"[">> \o JoinRepr(x.xs) \o <<"]">>
      [] x.t = "dict" -> <<"{">> \o JoinItems(x.items) \o <<"}">>

\* str(x): the str itself for a str, repr(x) for the other types modelled
py_str(x) == IF x.t = "str" THEN x.s ELSE py_repr(x)

-----------------------------------------------------------------------------
(* Regular expressions, as re.match uses them on the patterns of the plugin *)

\* An atom matches between lo and hi characters (hi = Unbounded: any number),
\* each in set (neg = FALSE) or each outside set (neg = TRUE).
Unbounded == -1
Atom(set, neg, lo, hi) == [set |-> set, neg |-> neg, lo |-> lo, hi |-> hi]
One(set) == <<Atom(set, FALSE, 1, 1)>>
OneNot(set) == <<Atom(set, TRUE, 1, 1)>>
\* the literal text cs
Lit(cs) == [i \in 1..Len(cs) |-> Atom({cs[i]}, FALSE, 1, 1)]
\* the dot: any character but a newline
AnyChar == <<Atom({"\n"}, TRUE, 1, 1)>>

CharIn(c, a) == IF a.neg THEN c \notin a.set ELSE c \in a.set

\* the positions of s the matcher can be at after atom a, started from one of P
Step(s, P, a) ==
    { q \in 0..Len(s) :
        \E p \in P :
            /\ p + a.lo <= q
            /\ (a.hi = Unbounded \/ q <= p + a.hi)
            /\ \A i \in (p + 1)..q : CharIn(s[i], a) }

RECURSIVE Run(_, _, _, _)
Run(s, pat, i, P) == IF i > Len(pat) THEN P ELSE Run(s, pat, i + 1, Step(s, P, pat[i]))

\* $ without re.MULTILINE: the end of the string, or just before a newline
\* that is the last character of the string
AtDollar(s, q) == q = Len(s) \/ (q = Len(s) - 1 /\ s[Len(s)] = "\n")

\* bool(re.match('^' + pat + '$', s))
re_match(pat, s) == \E q \in Run(s, pat, 1, {0}) : AtDollar(s, q)

\* bool(re.search('[set]', s))
re_search_class(set, s) == \E i \in 1..Len(s) : s[i] \in set

-----------------------------------------------------------------------------
(* The filters of FilterModule *)

False == Return(PyBool(FALSE))
True == Return(PyBool(TRUE))
Bool(b) == Return(PyBool(b))

\* r'^[78]\.[0-9]$'
php_version_pattern == One({"7", "8"}) \o Lit(<<".">>) \o One(digits)

validate_php_version(version) ==
    IF ~isinstance_str(version) THEN False
    ELSE Bool(re_match(php_version_pattern, version.s))

\* r'^[a-zA-Z0-9_]+$'
database_name_pattern == <<Atom(ascii_letters \cup digits \cup {"_"}, FALSE, 1, Unbounded)>>

validate_database_name(name) ==
    IF ~isinstance_str(name) \/ Len(name.s) = 0 THEN False
    ELSE IF Len(name.s) > 64 THEN False
    ELSE Bool(re_match(database_name_pattern, name.s))

\* [a-zA-Z0-9]([a-zA-Z0-9\-]{0,61}[a-zA-Z0-9])? : the positions after one label
DomainLabel(s, P) ==
    LET alnum == Atom(ascii_letters \cup digits, FALSE, 1, 1)
        inner == Atom(ascii_letters \cup digits \cup {"-"}, FALSE, 0, 61)
        P1 == Step(s, P, alnum)
    IN  P1 \cup Step(s, Step(s, P1, inner), alnum)

\* (label\.)* : the positions after any number of dot-terminated labels
RECURSIVE DomainLabels(_, _)
DomainLabels(s, P) ==
    LET Q == P \cup Step(s, DomainLabel(s, P), Atom({"."}, FALSE, 1, 1))
    IN  IF Q = P THEN P ELSE DomainLabels(s, Q)

\* r'^([a-zA-Z0-9]([a-zA-Z0-9\-]{0,61}[a-zA-Z0-9])?\.)*[a-zA-Z0-9]([a-zA-Z0-9\-]{0,61}[a-zA-Z0-9])?$'
domain_name_match(s) == \E q \in DomainLabel(s, DomainLabels(s, {0})) : AtDollar(s, q)

validate_domain_name(domain) ==
    IF ~isinstance_str(domain) \/ Len(domain.s) = 0 THEN False
    ELSE IF Len(domain.s) > 253 THEN False
    ELSE Bool(domain_name_match(domain.s))

reserved_ports == {22, 25, 53, 80, 110, 143, 443, 993, 995}

\* validate_port without the exception for 80 and 443
validate_port_no_web_exception(port) ==
    LET r == py_int(port)
    IN  IF r.raised
        THEN IF r.exc \in {"ValueError", "TypeError"} THEN False ELSE Raise(r.exc)
        ELSE IF r.n < 1 \/ r.n > 65535 THEN False
        ELSE IF r.n \in reserved_ports THEN False
        ELSE True

validate_port(port) ==
    LET r == py_int(port)
    IN  IF r.raised
        THEN IF r.exc \in {"ValueError", "TypeError"} THEN False ELSE Raise(r.exc)
        ELSE IF r.n < 1 \/ r.n > 65535 THEN False
        ELSE IF r.n \in reserved_ports /\ r.n \notin {80, 443} THEN False
        ELSE True

\* [^\s/$.?#]
HostStart == OneNot(whitespace \cup {"/", "$", ".", "?", "#"})
\* [^\s]*
NonSpaces == <<Atom(whitespace, TRUE, 0, Unbounded)>>
\* [^/]+
NonSlashes == <<Atom({"/"}, TRUE, 1, Unbounded)>>
\* https:// alone, the s no longer optional
HttpsOnlyScheme == Lit(<<"h","t","t","p","s",":","/","/">>)

\* https?://
HttpScheme == Lit(<<"h","t","t","p">>) \o <<Atom({"s"}, FALSE, 0, 1)>> \o Lit(<<":","/","/">>)
DotGit == Lit(<<".","g","i","t">>)

\* r'^https?://[^\s/$.?#].[^\s]*\.git$'
git_https_pattern == HttpScheme \o HostStart \o AnyChar \o NonSpaces \o DotGit
\* r'^git@[^\s/$.?#].[^\s]*:[^\s]*\.git$'
git_ssh_pattern ==
    Lit(<<"g","i","t","@">>) \o HostStart \o AnyChar \o NonSpaces \o Lit(<<":">>)
        \o NonSpaces \o DotGit
\* r'^https?://github\.com/[^/]+/[^/]+/?$'
git_github_pattern ==
    HttpScheme \o Lit(<<"g","i","t","h","u","b",".","c","o","m","/">>) \o NonSlashes
        \o Lit(<<"/">>) \o NonSlashes \o <<Atom({"/"}, FALSE, 0, 1)>>
\* r'^https?://gitlab\.com/[^/]+/[^/]+/?$'
git_gitlab_pattern ==
    HttpScheme \o Lit(<<"g","i","t","l","a","b",".","c","o","m","/">>) \o NonSlashes
        \o Lit(<<"/">>) \o NonSlashes \o <<Atom({"/"}, FALSE, 0, 1)>>

patterns == <<git_https_pattern, git_ssh_pattern, git_github_pattern, git_gitlab_pattern>>

validate_git_url(url) ==
    IF ~isinstance_str(url) \/ Len(url.s) = 0 THEN False
    ELSE Bool(\E k \in 1..Len(patterns) : re_match(patterns[k], url.s))

validate_password_strength(pw) ==
    IF ~isinstance_str(pw) THEN False
    ELSE IF Len(pw.s) < 8 THEN False
    ELSE IF ~re_search_class(ascii_uppercase, pw.s) THEN False
    ELSE IF ~re_search_class(ascii_lowercase, pw.s) THEN False
    ELSE IF ~re_search_class(digits, pw.s) THEN False
    ELSE True

\* the grave accent U+0060, which a TLA+ string cannot hold, is the token GraveAccent
GraveAccent == "U+0060"

dangerous_chars == <<GraveAccent, "$", "|", "&", ";", "(", ")", "{", "}", "<", ">">>

\* for char in dangerous_chars: sanitized = sanitized.replace(char, '')
RECURSIVE RemoveEach(_, _)
RemoveEach(sanitized, chars) ==
    IF chars = <<>> THEN sanitized
    ELSE RemoveEach(replace_with_empty(sanitized, Head(chars)), Tail(chars))

sanitize_input(input_str) ==
    IF ~isinstance_str(input_str) THEN Return(PyStr(py_str(input_str)))
    ELSE Return(PyStr(strip(RemoveEach(input_str.s, dangerous_chars))))

\* r'^[a-zA-Z0-9._%+-]+@[a-zA-Z0-9.-]+\.[a-zA-Z]{2,}$'
email_pattern ==
    <<Atom(ascii_letters \cup digits \cup {".", "_", "%", "+", "-"}, FALSE, 1, Unbounded)>>
        \o Lit(<<"@">>)
        \o <<Atom(ascii_letters \cup digits \cup {".", "-"}, FALSE, 1, Unbounded)>>
        \o Lit(<<".">>)
        \o <<Atom(ascii_letters, FALSE, 2, Unbounded)>>

validate_email(email) ==
    IF ~isinstance_str(email) THEN False
    ELSE Bool(re_match(email_pattern, email.s))

\* FilterModule.filters(): the registered names
filters == {"validate_php_version", "validate_database_name", "validate_domain_name",
            "validate_port", "validate_git_url", "validate_password_strength",
            "sanitize_input", "validate_email"}

\* filters()[name](value)
Apply(name, value) ==
    CASE name = "validate_php_version" -> validate_php_version(value)
      [] name = "validate_database_name" -> validate_database_name(value)
      [] name = "validate_domain_name" -> validate_domain_name(value)
      [] name = "validate_port" -> validate_port(value)
      [] name = "validate_git_url" -> validate_git_url(value)
      [] name = "validate_password_strength" -> validate_password_strength(value)
      [] name = "sanitize_input" -> sanitize_input(value)
      [] name = "validate_email" -> validate_email(value)

-----------------------------------------------------------------------------
(* The values the templating engine may hand to a filter *)

MaxStrLen == 3
MaxBodyLen == 3
MaxSmallInt == 150

RECURSIVE StringsUpTo(_, _)
StringsUpTo(alphabet, n) ==
    IF n = 0 THEN {<<>>}
    ELSE LET shorter == StringsUpTo(alphabet, n - 1)
         IN  shorter \cup { Append(s, c) : s \in shorter, c \in alphabet }

Repeat(c, n) == [i \in 1..n |-> c]

\* every string of at most MaxStrLen characters over a letter, a capital, a
\* digit, the underscore, the dot, a dangerous character and two whitespaces
ShortStrings == StringsUpTo({"a", "Z", "8", "_", ".", ";", " ", "\n"}, MaxStrLen)

\* names around the 64-character limit, with and without a final newline
LongStrings ==
    { Repeat("a", n) \o tail : n \in {63, 64, 65}, tail \in {<<>>, <<"\n">>, <<"-">>} }

\* spellings of integers: surrounding whitespace, sign, digits, underscores
NumericStrings ==
    { lead \o sign \o body \o trail :
        lead \in {<<>>, <<" ">>}, sign \in {<<>>, <<"+">>, <<"-">>},
        body \in {<<>>, <<"0">>, <<"8","0">>, <<"2","2">>, <<"8","_","0">>, <<"8","_","_","0">>,
                  <<"_","8","0">>, <<"8","0","_">>, <<"0","0","8","0">>, <<"8","0",".","0">>,
                  <<"6","5","5","3","5">>, <<"6","5","5","3","6">>},
        trail \in {<<>>, <<"\n">>, <<" ", "x">>} }

GitPrefixes ==
    { <<"h","t","t","p","s",":","/","/">>,
      <<"h","t","t","p",":","/","/">>,
      <<"f","t","p",":","/","/">>,
      <<"g","i","t","@">>,
      <<"g","i","t","@","h",".","x",":">>,
      <<"h","t","t","p","s",":","/","/","g","i","t","h","u","b",".","c","o","m","/">>,
      <<"h","t","t","p","s",":","/","/","g","i","t","h","u","b",".","c","o","m","/","o","/">>,
      <<"h","t","t","p",":","/","/","g","i","t","l","a","b",".","c","o","m","/","o","/">> }

GitSuffixes == { <<>>, <<".","g","i","t">>, <<".","g","i","t","\n">>, <<"/">>, <<"\n">> }

\* URL-like strings: a prefix, a body of at most MaxBodyLen characters, a suffix
GitStrings ==
    { p \o b \o s : p \in GitPrefixes,
                    b \in StringsUpTo({"a", "/", ".", " ", "\n"}, MaxBodyLen),
                    s \in GitSuffixes }

\* the examples the documentation of the filters and of the generator names
ExampleStrings ==
    { <<"g","i","t","@","g","i","t","h","u","b",".","c","o","m",":","o","r","g","/",
        "r","e","p","o",".","g","i","t">>,
      <<"f","t","p",":","/","/","x",".","g","i","t">>,
      <<"l","o","c","a","l","h","o","s","t">>,
      <<"-","b","a","d","-",".","c","o","m">>,
      <<"a",";","b",GraveAccent,"c">>,
      <<"$","(","a","|","b",")","&","{","<",">","}">>,
      <<"A","b","c","d","e","f","g","1">>, <<"a","b","c","d","e","f","g","1">>,
      <<"A","b","c","d","e","f","g","h">>, <<"A","B","C","D","E","F","G","1">>,
      <<"a","@","b",".","c","o">>, <<"a","@","b",".","c">>, <<"a","@","b",".","c","o","\n">>,
      <<"8",".","1">>, <<"8",".","1","0">>, <<"9",".","1">> }

Strings == ShortStrings \cup LongStrings \cup NumericStrings \cup GitStrings
               \cup ExampleStrings

Ints == (-1..MaxSmallInt) \cup {442, 443, 444, 992, 993, 994, 995, 996}
            \cup {65534, 65535, 65536, 65537}

Floats ==
    { PyFloat("inf", neg, 0, 0) : neg \in BOOLEAN }
        \cup { PyFloat("nan", FALSE, 0, 0) }
        \cup { PyFloat("fin", neg, ip, frac) :
                 neg \in BOOLEAN, ip \in {0, 1, 22, 80, 443, 65535, 65536}, frac \in {0, 5, 9} }

Containers ==
    { PyList(<<>>), PyList(<<PyInt(1), PyInt(2)>>), PyList(<<PyStr(<<"a", ";", "b">>)>>),
      PyDict(<<>>), PyDict(<<<<PyStr(<<"a">>), PyInt(1)>>>>) }

Values ==
    { PyStr(s) : s \in Strings } \cup { PyInt(n) : n \in Ints } \cup Floats
        \cup { PyBool(b) : b \in BOOLEAN } \cup { PyNone } \cup Containers

-----------------------------------------------------------------------------
(* One call of one registered filter on one value *)

NoValue == [t |-> "unset"]
\* no answer read from the prompt yet
Unanswered == <<"unanswered">>

InitGenerator ==
    /\ gp_pc = "idle" /\ length = 0 /\ complexity = "high" /\ password = <<>>

InitMain ==
    /\ pc = "idle" /\ passwords = <<>> /\ adminer_hash = NoValue
    /\ vault_content = NoValue /\ console = <<>> /\ save = Unanswered /\ answer = Unanswered
    /\ file = [state |-> "absent"] /\ opens = 0 /\ failed = "none"

Init ==
    /\ filter = "none"
    /\ arg \in Values
    /\ ret = NoOutcome
    /\ InitGenerator
    /\ InitMain

CallValidatePhpVersion ==
    /\ filter = "none"
    /\ filter' = "validate_php_version"
    /\ ret' = validate_php_version(arg)
    /\ UNCHANGED <<arg, gp_vars, main_vars>>

CallValidateDatabaseName ==
    /\ filter = "none"
    /\ filter' = "validate_database_name"
    /\ ret' = validate_database_name(arg)
    /\ UNCHANGED <<arg, gp_vars, main_vars>>

CallValidateDomainName ==
    /\ filter = "none"
    /\ filter' = "validate_domain_name"
    /\ ret' = validate_domain_name(arg)
    /\ UNCHANGED <<arg, gp_vars, main_vars>>

CallValidatePort ==
    /\ filter = "none"
    /\ filter' = "validate_port"
    /\ ret' = validate_port(arg)
    /\ UNCHANGED <<arg, gp_vars, main_vars>>

CallValidateGitUrl ==
    /\ filter = "none"
    /\ filter' = "validate_git_url"
    /\ ret' = validate_git_url(arg)
    /\ UNCHANGED <<arg, gp_vars, main_vars>>

CallValidatePasswordStrength ==
    /\ filter = "none"
    /\ filter' = "validate_password_strength"
    /\ ret' = validate_password_strength(arg)
    /\ UNCHANGED <<arg, gp_vars, main_vars>>

CallSanitizeInput ==
    /\ filter = "none"
    /\ filter' = "sanitize_input"
    /\ ret' = sanitize_input(arg)
    /\ UNCHANGED <<arg, gp_vars, main_vars>>

CallValidateEmail ==
    /\ filter = "none"
    /\ filter' = "validate_email"
    /\ ret' = validate_email(arg)
    /\ UNCHANGED <<arg, gp_vars, main_vars>>

Next ==
    \/ CallValidatePhpVersion
    \/ CallValidateDatabaseName
    \/ CallValidateDomainName
    \/ CallValidatePort
    \/ CallValidateGitUrl
    \/ CallValidatePasswordStrength
    \/ CallSanitizeInput
    \/ CallValidateEmail

Spec == Init /\ [][Next]_vars

-----------------------------------------------------------------------------
(* Properties of the filters *)

Called(name) == filter = name

\* C1 (as claimed): every registered filter is total: on a value of any type
\* the call returns and never raises, a validate_* filter returns a bool and
\* sanitize_input returns a str.
C1_FiltersTotal ==
    filter \in filters =>
        /\ ret.kind = "return"
        /\ ret.val.t = (IF filter = "sanitize_input" THEN "str" ELSE "bool")

\* C2 (as claimed): validate_port is not monotonic: 79 is rejected, 80
\* accepted, 81 rejected, 443 accepted and 444 rejected.
C2_PortDecisionsAsClaimed ==
    (Called("validate_port") /\ arg.t = "int") =>
        /\ arg.n = 79 => ret = False
        /\ arg.n = 80 => ret = True
        /\ arg.n = 81 => ret = False
        /\ arg.n = 443 => ret = True
        /\ arg.n = 444 => ret = False

\* C2 (amended): validate_port accepts each of 79, 80, 81, 443 and 444; it
\* is not monotonic because of the reserved ports: 21 is accepted, 22
\* rejected and 23 accepted.
C2_PortDecisions ==
    (Called("validate_port") /\ arg.t = "int") =>
        /\ arg.n \in {79, 80, 81, 443, 444} => ret = True
        /\ arg.n \in {21, 23} => ret = True
        /\ arg.n = 22 => ret = False

C2_Witness == Called("validate_port") /\ arg = PyInt(79) /\ ret = True

\* C3 (as claimed): an input that coerces to an integer p is accepted exactly
\* when 1 <= p <= 65535 and p is none of 22, 25, 53, 110, 143, 993, 995;
\* an input that does not coerce to an integer is rejected with False.
C3_PortRule ==
    Called("validate_port") =>
        LET r == py_int(arg)
        IN  IF r.raised THEN ret = False
            ELSE ret = Bool(/\ 1 <= r.n
                            /\ r.n <= 65535
                            /\ r.n \notin {22, 25, 53, 110, 143, 993, 995})

NoDangerousChar(s) ==
    \A i \in 1..Len(s) :
        s[i] \notin {GraveAccent, "$", "|", "&", ";", "(", ")", "{", "}", "<", ">"}

Trimmed(s) == s = <<>> \/ (s[1] \notin whitespace /\ s[Len(s)] \notin whitespace)

\* C4 (as claimed): for an input of any type the str sanitize_input returns
\* holds none of the eleven dangerous characters and has no leading or
\* trailing whitespace; sanitize_input("a;b<grave>c") = "abc" and
\* sanitize_input(42) = "42".
C4_SanitizedOutput ==
    Called("sanitize_input") =>
        /\ ret.kind = "return"
        /\ ret.val.t = "str"
        /\ NoDangerousChar(ret.val.s)
        /\ Trimmed(ret.val.s)
        /\ arg = PyStr(<<"a", ";", "b", GraveAccent, "c">>) => ret.val.s = <<"a", "b", "c">>
        /\ arg = PyInt(42) => ret.val.s = <<"4", "2">>

\* C8 (as claimed): validate_database_name accepts exactly the strings of 1
\* to 64 characters that are all ASCII letters, ASCII digits or underscores;
\* a string with any other character anywhere, a final newline included, is
\* rejected, as is every non-string.
C8_DatabaseNameRule ==
    Called("validate_database_name") =>
        ret = Bool(/\ arg.t = "str"
                   /\ Len(arg.s) >= 1
                   /\ Len(arg.s) <= 64
                   /\ \A i \in 1..Len(arg.s) :
                        arg.s[i] \in ascii_letters \cup digits \cup {"_"})

StartsWith(s, p) == Len(s) >= Len(p) /\ SubSeq(s, 1, Len(p)) = p
EndsWith(s, p) == Len(s) >= Len(p) /\ SubSeq(s, Len(s) - Len(p) + 1, Len(s)) = p
Front(s) == SubSeq(s, 1, Len(s) - 1)
Http == <<"h","t","t","p",":","/","/">>
Https == <<"h","t","t","p","s",":","/","/">>

\* host and path of an URL that ends in .git: a first character that is
\* neither whitespace nor one of / $ . ? #, a second that is not a newline,
\* then no whitespace
HostAndPath(mid) ==
    /\ Len(mid) >= 2
    /\ mid[1] \notin whitespace \cup {"/", "$", ".", "?", "#"}
    /\ mid[2] # "\n"
    /\ \A i \in 3..Len(mid) : mid[i] \notin whitespace

\* scheme://host...path.git
UrlEndingInGit(s, schemes) ==
    \E sc \in schemes :
        /\ StartsWith(s, sc)
        /\ Len(s) >= Len(sc) + 4
        /\ EndsWith(s, <<".","g","i","t">>)
        /\ HostAndPath(SubSeq(s, Len(sc) + 1, Len(s) - 4))

\* git@host:path.git, the colon after at least two host characters
SshShorthand(s) ==
    /\ StartsWith(s, <<"g","i","t","@">>)
    /\ Len(s) >= 8
    /\ EndsWith(s, <<".","g","i","t">>)
    /\ LET mid == SubSeq(s, 5, Len(s) - 4)
       IN  HostAndPath(mid) /\ \E k \in 3..Len(mid) : mid[k] = ":"

\* scheme://site/<owner>/<repo> with an optional final slash, owner and
\* repo non-empty and free of slashes
BareRepoUrl(s, schemes, site) ==
    \E sc \in schemes :
        /\ StartsWith(s, sc \o site \o <<"/">>)
        /\ LET rest == SubSeq(s, Len(sc) + Len(site) + 2, Len(s))
               path == IF rest # <<>> /\ rest[Len(rest)] = "/" THEN Front(rest) ELSE rest
           IN  /\ Cardinality({ i \in 1..Len(path) : path[i] = "/" }) = 1
               /\ path[1] # "/"
               /\ path[Len(path)] # "/"

GitUrlForm(s, schemes) ==
    \/ UrlEndingInGit(s, schemes)
    \/ SshShorthand(s)
    \/ BareRepoUrl(s, schemes, <<"g","i","t","h","u","b",".","c","o","m">>)
    \/ BareRepoUrl(s, schemes, <<"g","i","t","l","a","b",".","c","o","m">>)

\* C9 (as claimed): validate_git_url accepts exactly the non-empty strings of
\* one of four forms: an HTTPS URL ending in .git, git@host:path.git, a bare
\* https://github.com/<owner>/<repo> with optional final slash, or the same
\* on gitlab.com; an URL with another scheme is rejected.
C9_GitUrlRuleAsClaimed ==
    Called("validate_git_url") =>
        ret = Bool(arg.t = "str" /\ Len(arg.s) > 0 /\ GitUrlForm(arg.s, {Https}))

\* C9 (amended): validate_git_url accepts exactly the non-empty strings
\* that, themselves or without one final newline, have one of the four
\* forms, the scheme of the three URL forms being http or https; an input
\* that begins with neither http://, https:// nor git@ is rejected.
C9_GitUrlRule ==
    Called("validate_git_url") =>
        /\ ret = Bool(/\ arg.t = "str"
                      /\ Len(arg.s) > 0
                      /\ \/ GitUrlForm(arg.s, {Http, Https})
                         \/ /\ arg.s[Len(arg.s)] = "\n"
                            /\ GitUrlForm(Front(arg.s), {Http, Https}))
        /\ ret = True =>
              \E p \in {Http, Https, <<"g","i","t","@">>} : StartsWith(arg.s, p)

C9_Witness ==
    /\ Called("validate_git_url")
    /\ arg = PyStr(Http \o <<"a","a",".","g","i","t">>)
    /\ ret = True

-----------------------------------------------------------------------------
(* generate_password(length, complexity) *)

MaxPwLen == 2

symbols == {"!", "@", "#", "$", "%", "^", "&", "*"}

\* the alphabet with the symbols whatever the complexity
characters_always_symbols(cx) == ascii_letters \cup digits \cup symbols

\* the alphabet generate_password selects
characters(cx) ==
    IF cx = "high" THEN ascii_letters \cup digits \cup symbols
    ELSE IF cx = "medium" THEN ascii_letters \cup digits
    ELSE ascii_letters \cup digits

\* the complexity values tried: the two documented ones and two others
Complexities == {"high", "medium", "low", "HIGH"}

InitFilterIdle == filter = "none" /\ arg = PyNone /\ ret = NoOutcome

InitPassword ==
    /\ gp_pc = "loop"
    /\ length \in -1..MaxPwLen
    /\ complexity \in Complexities
    /\ password = <<>>
    /\ InitFilterIdle
    /\ InitMain

\* one turn of the generator expression: secrets.choice(characters)
Choice ==
    /\ gp_pc = "loop"
    /\ Len(password) < length
    /\ \E c \in characters(complexity) : password' = Append(password, c)
    /\ UNCHANGED <<gp_pc, length, complexity, filter_vars, main_vars>>

\* range(length) is exhausted: ''.join(...) is returned
ReturnPassword ==
    /\ gp_pc = "loop"
    /\ Len(password) >= length
    /\ gp_pc' = "returned"
    /\ UNCHANGED <<password, length, complexity, filter_vars, main_vars>>

NextPassword == Choice \/ ReturnPassword

SpecPassword == InitPassword /\ [][NextPassword]_vars

\* C10: for every length n >= 0 and every complexity, generate_password
\* returns exactly n characters, each an ASCII letter, a digit or one of
\* the 8 symbols !@#$%^&* when complexity is 'high', and each an ASCII
\* letter or a digit for any other complexity.
C10_PasswordLengthAndAlphabet ==
    (gp_pc = "returned" /\ length >= 0) =>
        /\ Len(password) = length
        /\ \A i \in 1..Len(password) :
              \/ password[i] \in ascii_letters
              \/ password[i] \in digits
              \/ complexity = "high" /\ password[i] \in {"!", "@", "#", "$", "%", "^", "&", "*"}

C10_Witness ==
    /\ gp_pc = "returned"
    /\ complexity = "medium"
    /\ length = MaxPwLen
    /\ Len(password) = MaxPwLen

-----------------------------------------------------------------------------
(* main() of generate_passwords.py *)

\* A generated secret is kept as what produced it and which of the random
\* outcomes was drawn, not as its characters: two secrets are the same string
\* exactly when they agree on both.
NumDraws == 2
Draws == 1..NumDraws

\* the value of generate_password(len, cx) on random outcome d
generate_password(len, cx, d) ==
    [kind |-> "password", length |-> len, complexity |-> cx, draw |-> d]

\* the value of secrets.token_urlsafe(nbytes) on random outcome d
token_urlsafe(nbytes, d) == [kind |-> "token_urlsafe", nbytes |-> nbytes, draw |-> d]

\* f"base64:{token}"
app_key_value(token) == [kind |-> "prefixed", prefix |-> "base64:", token |-> token]

\* crypt.crypt(pw, crypt.mksalt(crypt.METHOD_SHA512)) with the salt drawn as d
hash_password(pw, d) == [kind |-> "crypt", method |-> "SHA512", salt |-> d, plaintext |-> pw]

\* a dict as the sequence of its <<key, value>> items, in insertion order
HasKey(dict, key) == \E i \in 1..Len(dict) : dict[i][1] = key
GetItem(dict, key) == dict[CHOOSE i \in 1..Len(dict) : dict[i][1] = key][2]
SetItem(dict, key, value) ==
    IF HasKey(dict, key)
    THEN [i \in 1..Len(dict) |-> IF dict[i][1] = key THEN <<key, value>> ELSE dict[i]]
    ELSE Append(dict, <<key, value>>)

\* the vault document with the adminer password as the database user's password
vault_template_adminer_for_db_user(pw, hash) ==
    [vault_mysql_root_password |-> GetItem(pw, "mysql_root"),
     vault_postgres_password |-> GetItem(pw, "postgres"),
     vault_adminer_password |-> GetItem(pw, "adminer"),
     vault_adminer_password_hash |-> hash,
     vault_laravel_db_password |-> GetItem(pw, "laravel_db"),
     vault_app_key |-> GetItem(pw, "app_key"),
     vault_jwt_secret |-> GetItem(pw, "jwt_secret"),
     vault_backup_encryption_key |-> GetItem(pw, "backup_key"),
     vault_adminer_user |-> "dbadmin",
     vault_db_users |->
        <<[name |-> "laravel_user",
           password |-> GetItem(pw, "adminer"),
           privileges |-> "SELECT,INSERT,UPDATE,DELETE,CREATE,ALTER,INDEX,DROP"]>>]

\* the f-string vault_content: each key with the value rendered into it
vault_template(pw, hash) ==
    [vault_mysql_root_password |-> GetItem(pw, "mysql_root"),
     vault_postgres_password |-> GetItem(pw, "postgres"),
     vault_adminer_password |-> GetItem(pw, "adminer"),
     vault_adminer_password_hash |-> hash,
     vault_laravel_db_password |-> GetItem(pw, "laravel_db"),
     vault_app_key |-> GetItem(pw, "app_key"),
     vault_jwt_secret |-> GetItem(pw, "jwt_secret"),
     vault_backup_encryption_key |-> GetItem(pw, "backup_key"),
     vault_adminer_user |-> "dbadmin",
     vault_db_users |->
        <<[name |-> "laravel_user",
           password |-> GetItem(pw, "laravel_db"),
           privileges |-> "SELECT,INSERT,UPDATE,DELETE,CREATE,ALTER,INDEX,DROP"]>>]

\* saving unless the answer is 'n'
confirms_unless_n(s) == s # <<"n">>

\* if save == 'y'
confirms(s) == s = <<"y">>

\* console entries
Text(line) == [what |-> "text", line |-> line]
PasswordLine(key, value) == [what |-> "password", key |-> key, value |-> value]
HashLine(value) == [what |-> "hash", value |-> value]
VaultLines(content) == [what |-> "vault", content |-> content]

\* what the operator may type at the prompt (input() drops the newline)
Answers == { <<"y">>, <<"Y">>, <<>>, <<"n">>, <<"N">>, <<"y","e","s">>, <<"Y","E","S">>,
             <<" ","y">> }

\* vault_template.yml before the run: absent, or left by an earlier run
FilesBefore == { [state |-> "absent"], [state |-> "stale"] }

InitGeneratePasswords ==
    /\ pc = "banner"
    /\ passwords = <<>>
    /\ adminer_hash = NoValue
    /\ vault_content = NoValue
    /\ console = <<>>
    /\ save = Unanswered
    /\ answer = Unanswered
    /\ file \in FilesBefore
    /\ opens = 0
    /\ failed = "none"
    /\ InitFilterIdle
    /\ InitGenerator

\* an exception leaves main(): nothing catches it and the process ends
Abort(step) ==
    /\ pc' = "aborted"
    /\ failed' = step

Assign(key, value, next) ==
    /\ passwords' = SetItem(passwords, key, value)
    /\ pc' = next
    /\ UNCHANGED failed

GenUnchanged ==
    UNCHANGED <<adminer_hash, vault_content, console, save, answer, file, opens,
                filter_vars, gp_vars>>

PrintBanner ==
    /\ pc = "banner"
    /\ console' = console \o <<Text("Password Generator"), Text("====")>>
    /\ pc' = "mysql_root"
    /\ UNCHANGED <<passwords, adminer_hash, vault_content, save, answer, file, opens,
                   failed, filter_vars, gp_vars>>

GenMysqlRoot ==
    /\ pc = "mysql_root"
    /\ \/ \E d \in Draws : Assign("mysql_root", generate_password(20, "high", d), "postgres")
       \/ Abort("mysql_root") /\ UNCHANGED passwords
    /\ GenUnchanged

GenPostgres ==
    /\ pc = "postgres"
    /\ \/ \E d \in Draws : Assign("postgres", generate_password(20, "high", d), "adminer")
       \/ Abort("postgres") /\ UNCHANGED passwords
    /\ GenUnchanged

GenAdminer ==
    /\ pc = "adminer"
    /\ \/ \E d \in Draws : Assign("adminer", generate_password(16, "medium", d), "laravel_db")
       \/ Abort("adminer") /\ UNCHANGED passwords
    /\ GenUnchanged

GenLaravelDb ==
    /\ pc = "laravel_db"
    /\ \/ \E d \in Draws : Assign("laravel_db", generate_password(16, "medium", d), "app_key")
       \/ Abort("laravel_db") /\ UNCHANGED passwords
    /\ GenUnchanged

GenAppKey ==
    /\ pc = "app_key"
    /\ \/ \E d \in Draws : Assign("app_key", app_key_value(token_urlsafe(32, d)), "jwt_secret")
       \/ Abort("app_key") /\ UNCHANGED passwords
    /\ GenUnchanged

GenJwtSecret ==
    /\ pc = "jwt_secret"
    /\ \/ \E d \in Draws : Assign("jwt_secret", token_urlsafe(64, d), "backup_key")
       \/ Abort("jwt_secret") /\ UNCHANGED passwords
    /\ GenUnchanged

GenBackupKey ==
    /\ pc = "backup_key"
    /\ \/ \E d \in Draws : Assign("backup_key", token_urlsafe(32, d), "print_passwords")
       \/ Abort("backup_key") /\ UNCHANGED passwords
    /\ GenUnchanged

\* for key, password in passwords.items(): print(...)
PrintPasswords ==
    /\ pc = "print_passwords"
    /\ console' = console \o <<Text("Generated Passwords:"), Text("----")>>
                    \o [i \in 1..Len(passwords) |->
                          PasswordLine(passwords[i][1], passwords[i][2])]
    /\ pc' = "hash"
    /\ UNCHANGED <<passwords, adminer_hash, vault_content, save, answer, file, opens,
                   failed, filter_vars, gp_vars>>

HashAdminer ==
    /\ pc = "hash"
    /\ \/ /\ \E d \in Draws :
               adminer_hash' = hash_password(GetItem(passwords, "adminer"), d)
          /\ pc' = "print_hash"
          /\ UNCHANGED failed
       \/ Abort("hash_password") /\ UNCHANGED adminer_hash
    /\ UNCHANGED <<passwords, vault_content, console, save, answer, file, opens,
                   filter_vars, gp_vars>>

PrintHash ==
    /\ pc = "print_hash"
    /\ console' = console \o <<Text("Hashed Passwords:"), Text("----"), HashLine(adminer_hash)>>
    /\ pc' = "render"
    /\ UNCHANGED <<passwords, adminer_hash, vault_content, save, answer, file, opens,
                   failed, filter_vars, gp_vars>>

RenderVault ==
    /\ pc = "render"
    /\ vault_content' = vault_template(passwords, adminer_hash)
    /\ console' = console \o <<Text("Vault File Template:"), Text("----"),
                               VaultLines(vault_content')>>
    /\ pc' = "prompt"
    /\ UNCHANGED <<passwords, adminer_hash, save, answer, file, opens, failed,
                   filter_vars, gp_vars>>

\* save = input(...).lower(); if save == 'y': ...
Prompt ==
    /\ pc = "prompt"
    /\ \/ \E a \in Answers :
            /\ answer' = a
            /\ save' = lower(a)
            /\ pc' = IF confirms(lower(a)) THEN "open" ELSE "done"
            /\ UNCHANGED failed
       \/ Abort("input") /\ UNCHANGED <<answer, save>>
    /\ UNCHANGED <<passwords, adminer_hash, vault_content, console, file, opens,
                   filter_vars, gp_vars>>

\* with open('vault_template.yml', 'w') as f: creates or truncates the file
OpenFile ==
    /\ pc = "open"
    /\ \/ /\ file' = [state |-> "empty"]
          /\ opens' = opens + 1
          /\ pc' = "write"
          /\ UNCHANGED failed
       \/ Abort("open") /\ UNCHANGED <<file, opens>>
    /\ UNCHANGED <<passwords, adminer_hash, vault_content, console, save, answer,
                   filter_vars, gp_vars>>

\* f.write(vault_content); a failed write leaves the file empty or cut short
WriteFile ==
    /\ pc = "write"
    /\ \/ /\ file' = [state |-> "written", content |-> vault_content]
          /\ pc' = "saved"
          /\ UNCHANGED failed
       \/ /\ file' \in { [state |-> "empty"], [state |-> "partial", content |-> vault_content] }
          /\ Abort("write")
    /\ UNCHANGED <<passwords, adminer_hash, vault_content, console, save, answer, opens,
                   filter_vars, gp_vars>>

PrintSaved ==
    /\ pc = "saved"
    /\ console' = console \o <<Text("Saved to vault_template.yml"), Text("Next steps:")>>
    /\ pc' = "done"
    /\ UNCHANGED <<passwords, adminer_hash, vault_content, save, answer, file, opens,
                   failed, filter_vars, gp_vars>>

NextMain ==
    \/ PrintBanner
    \/ GenMysqlRoot
    \/ GenPostgres
    \/ GenAdminer
    \/ GenLaravelDb
    \/ GenAppKey
    \/ GenJwtSecret
    \/ GenBackupKey
    \/ PrintPasswords
    \/ HashAdminer
    \/ PrintHash
    \/ RenderVault
    \/ Prompt
    \/ OpenFile
    \/ WriteFile
    \/ PrintSaved

SpecMain == InitGeneratePasswords /\ [][NextMain]_vars

-----------------------------------------------------------------------------
(* Properties of main() *)

SecretKeys ==
    <<"mysql_root", "postgres", "adminer", "laravel_db", "app_key", "jwt_secret",
      "backup_key">>

AllSecretsGenerated ==
    /\ Len(passwords) = 7
    /\ \A i \in 1..7 : passwords[i][1] = SecretKeys[i]

Printed(kind) == { i \in 1..Len(console) : console[i].what = kind }

\* C5: a completed run has produced exactly the 7 plaintext secrets
\* mysql_root, postgres, adminer, laravel_db, app_key, jwt_secret and
\* backup_key and exactly 1 hash, the hash is computed from the adminer
\* plaintext that is rendered as vault_adminer_password, and the rendered
\* vault_laravel_db_password equals the password of the single vault_db_users
\* entry, laravel_user.
C5_BundleComplete ==
    pc = "done" =>
        /\ AllSecretsGenerated
        /\ Cardinality(Printed("password")) = 7
        /\ adminer_hash # NoValue
        /\ Cardinality(Printed("hash")) = 1
        /\ vault_content.vault_adminer_password_hash = adminer_hash
        /\ adminer_hash.plaintext = vault_content.vault_adminer_password
        /\ vault_content.vault_adminer_password = GetItem(passwords, "adminer")
        /\ Len(vault_content.vault_db_users) = 1
        /\ vault_content.vault_db_users[1].name = "laravel_user"
        /\ vault_content.vault_db_users[1].password = vault_content.vault_laravel_db_password
        /\ vault_content.vault_laravel_db_password = GetItem(passwords, "laravel_db")

C5_Witness ==
    /\ pc = "done"
    /\ file.state = "written"
    /\ GetItem(passwords, "adminer") # GetItem(passwords, "laravel_db")

Yes == { <<"y">>, <<"Y">> }

\* C6: vault_template.yml is written only on explicit confirmation: it is
\* opened at most once, only after the seven secrets and the hash are
\* generated and the prompt is answered 'y' or 'Y'; a run answered 'y' or 'Y'
\* that completes has written the document; on any other answer, the empty
\* one included, the file is neither created nor modified and the run ends.
C6_WriteOnlyOnConfirmation ==
    /\ opens <= 1
    /\ file \notin FilesBefore => opens = 1
    /\ opens = 1 =>
          /\ AllSecretsGenerated
          /\ adminer_hash # NoValue
          /\ vault_content # NoValue
          /\ answer \in Yes
    /\ (pc = "done" /\ answer \in Yes) =>
          file = [state |-> "written", content |-> vault_content]
    /\ (answer # Unanswered /\ answer \notin Yes) =>
          /\ pc = "done"
          /\ opens = 0
          /\ file \in FilesBefore

C6_Witness ==
    /\ pc = "done"
    /\ answer = <<"Y">>
    /\ file.state = "written"

SecretPrinted == \E i \in 1..Len(console) : console[i].what # "text"

\* C7 (as claimed): when a generation step fails (the random source, the
\* hashing primitive or the file write), the run aborts and no generated
\* secret has been emitted before the abort, neither to the console nor to
\* the file.
C7_NoOutputBeforeAbort ==
    (pc = "aborted" /\ failed # "input") =>
        /\ ~SecretPrinted
        /\ file \in FilesBefore \cup { [state |-> "empty"] }

====
